---- MODULE Spec2Model ----
(***************************************************************************)
(* Layout core of gridtech-react: collision test, bounds clamp, free-space *)
(* finder, position validator and the reflow engine, translated from       *)
(* src/src/utils/gridUtils.ts, src/src/utils/grid/gridMath.ts and          *)
(* src/src/utils/grid/gridPlacement.ts.                                     *)
(*                                                                         *)
(* A widget is a record [id, x, y, width, height, type]; a widget list is *)
(* a sequence of widgets.  The functions are pure: each specification      *)
(* draws the arguments of one function in Init and its actions call it.    *)
(* The hooks of src/src/hooks/useWidgetActions.ts and useDragHandling.ts   *)
(* (src/unnamed/part_001) are the specifications Spec and SpecDrag.        *)
(***************************************************************************)
EXTENDS Integers, Sequences, FiniteSets, TLC

VARIABLES pc, widgets, gridCols, gridRows, preventOverlap, activeWidgetId,
          probe, result, result2,
          draggedId, preview, hasMoved, fired, defaultWidgetSize,
          result3, hiddenGroups, groupFilters, onGroupFiltersChange

vars == <<pc, widgets, gridCols, gridRows, preventOverlap, activeWidgetId,
          probe, result, result2,
          draggedId, preview, hasMoved, fired, defaultWidgetSize,
               result3, hiddenGroups, groupFilters, onGroupFiltersChange>>

(***************************************************************************)
(* Bounds of the model                                                     *)
(***************************************************************************)
MaxCols == 3
MaxRows == 2
MaxWidgets == 2
\* how far outside the grid a requested coordinate may lie
Slack == 1

(***************************************************************************)
(* Values                                                                  *)
(***************************************************************************)
\* the absent optional argument activeWidgetId (undefined is falsy)
Undefined == "undefined"
\* the value null returned by getNextAvailablePosition
Null == [null |-> TRUE]
IsNull(p) == "null" \in DOMAIN p
\* a value of the variables a specification does not use
Unused == <<>>

Min(a, b) == IF a < b THEN a ELSE b
Max(a, b) == IF a > b THEN a ELSE b

WidgetId(i) == "widget-" \o ToString(i)

(***************************************************************************)
(* gridMath.ts                                                             *)
(***************************************************************************)
\* clampGridPosition without the lower bound Math.max(0, ...)
clampGridPosition_NoLower(x, y, cols, rows, widgetWidth, widgetHeight) ==
  [x |-> Min(x, cols - widgetWidth),
   y |-> Min(y, rows - widgetHeight)]

\* Math.max(0, Math.min(x, gridCols - widgetWidth)), the same for y
clampGridPosition(x, y, cols, rows, widgetWidth, widgetHeight) ==
  [x |-> Max(0, Min(x, cols - widgetWidth)),
   y |-> Max(0, Min(y, rows - widgetHeight))]

\* checkCollision with non-strict comparisons: touching edges collide
checkCollision_NonStrict(widget1, widget2) ==
  /\ widget1.x <= widget2.x + widget2.width
  /\ widget1.x + widget1.width >= widget2.x
  /\ widget1.y <= widget2.y + widget2.height
  /\ widget1.y + widget1.height >= widget2.y

checkCollision(widget1, widget2) ==
  /\ widget1.x < widget2.x + widget2.width
  /\ widget1.x + widget1.width > widget2.x
  /\ widget1.y < widget2.y + widget2.height
  /\ widget1.y + widget1.height > widget2.y

(***************************************************************************)
(* gridPlacement.ts                                                        *)
(***************************************************************************)
\* the test of the inner loop body: some rectangle of ws overlaps the
\* widgetWidth x widgetHeight candidate at (x, y)
SomeOverlaps(ws, x, y, widgetWidth, widgetHeight) ==
  \E i \in 1..Len(ws) :
    /\ ws[i].x < x + widgetWidth
    /\ ws[i].x + ws[i].width > x
    /\ ws[i].y < y + widgetHeight
    /\ ws[i].y + ws[i].height > y

\* the two nested for loops, entered at candidate (x, y)
RECURSIVE ScanFrom(_, _, _, _, _, _, _)
ScanFrom(ws, cols, rows, widgetWidth, widgetHeight, x, y) ==
  IF ~(y <= rows - widgetHeight) THEN Null
  ELSE IF ~(x <= cols - widgetWidth)
       THEN ScanFrom(ws, cols, rows, widgetWidth, widgetHeight, 0, y + 1)
       ELSE IF ~SomeOverlaps(ws, x, y, widgetWidth, widgetHeight)
            THEN [x |-> x, y |-> y]
            ELSE ScanFrom(ws, cols, rows, widgetWidth, widgetHeight, x + 1, y)

\* the scan with x running from the right edge to the left
RECURSIVE ScanLeftwardFrom(_, _, _, _, _, _, _)
ScanLeftwardFrom(ws, cols, rows, widgetWidth, widgetHeight, x, y) ==
  IF ~(y <= rows - widgetHeight) THEN Null
  ELSE IF x < 0
       THEN ScanLeftwardFrom(ws, cols, rows, widgetWidth, widgetHeight,
                             cols - widgetWidth, y + 1)
       ELSE IF ~SomeOverlaps(ws, x, y, widgetWidth, widgetHeight)
            THEN [x |-> x, y |-> y]
            ELSE ScanLeftwardFrom(ws, cols, rows, widgetWidth, widgetHeight, x - 1, y)

getNextAvailablePosition_RightToLeft(ws, cols, rows, widgetWidth, widgetHeight) ==
  ScanLeftwardFrom(ws, cols, rows, widgetWidth, widgetHeight, cols - widgetWidth, 0)

\* the scan with the columns in the outer loop (column-major first fit)
RECURSIVE ScanColumnsFrom(_, _, _, _, _, _, _)
ScanColumnsFrom(ws, cols, rows, widgetWidth, widgetHeight, x, y) ==
  IF ~(x <= cols - widgetWidth) THEN Null
  ELSE IF ~(y <= rows - widgetHeight)
       THEN ScanColumnsFrom(ws, cols, rows, widgetWidth, widgetHeight, x + 1, 0)
       ELSE IF ~SomeOverlaps(ws, x, y, widgetWidth, widgetHeight)
            THEN [x |-> x, y |-> y]
            ELSE ScanColumnsFrom(ws, cols, rows, widgetWidth, widgetHeight, x, y + 1)

getNextAvailablePosition_ColumnMajor(ws, cols, rows, widgetWidth, widgetHeight) ==
  ScanColumnsFrom(ws, cols, rows, widgetWidth, widgetHeight, 0, 0)

getNextAvailablePosition(ws, cols, rows, widgetWidth, widgetHeight) ==
  ScanFrom(ws, cols, rows, widgetWidth, widgetHeight, 0, 0)

(***************************************************************************)
(* gridUtils.ts : validateWidgetPosition                                   *)
(***************************************************************************)
\* allWidgets.map(w => ({x, y, width, height}))
Rects(ws) ==
  [i \in 1..Len(ws) |->
     [x |-> ws[i].x, y |-> ws[i].y, width |-> ws[i].width, height |-> ws[i].height]]

\* freeSpace || {x: 0, y: 0}
OrOrigin(p) == IF IsNull(p) THEN [x |-> 0, y |-> 0] ELSE p

\* validateWidgetPosition without the tests widget.x < 0 and widget.y < 0
validateWidgetPosition_NoLowerTest(widget, allWidgets, cols, rows, po) ==
  IF \/ widget.x + widget.width > cols
     \/ widget.y + widget.height > rows
  THEN [isValid |-> FALSE,
        suggestedPosition |-> clampGridPosition(widget.x, widget.y, cols, rows,
                                                widget.width, widget.height)]
  ELSE IF po /\ \E i \in 1..Len(allWidgets) :
                   allWidgets[i].id # widget.id /\ checkCollision(widget, allWidgets[i])
       THEN [isValid |-> FALSE,
             suggestedPosition |->
               OrOrigin(getNextAvailablePosition(Rects(allWidgets), cols, rows,
                                                 widget.width, widget.height))]
       ELSE [isValid |-> TRUE]

\* validateWidgetPosition searching free space among the other widgets only
validateWidgetPosition_FinderSkipsSelf(widget, allWidgets, cols, rows, po) ==
  IF \/ widget.x < 0
     \/ widget.y < 0
     \/ widget.x + widget.width > cols
     \/ widget.y + widget.height > rows
  THEN [isValid |-> FALSE,
        suggestedPosition |-> clampGridPosition(widget.x, widget.y, cols, rows,
                                                widget.width, widget.height)]
  ELSE IF po /\ \E i \in 1..Len(allWidgets) :
                   allWidgets[i].id # widget.id /\ checkCollision(widget, allWidgets[i])
       THEN [isValid |-> FALSE,
             suggestedPosition |->
               OrOrigin(getNextAvailablePosition(
                          Rects(SelectSeq(allWidgets, LAMBDA w : w.id # widget.id)),
                          cols, rows, widget.width, widget.height))]
       ELSE [isValid |-> TRUE]

\* validateWidgetPosition without the test other.id !== widget.id
validateWidgetPosition_SelfCollides(widget, allWidgets, cols, rows, po) ==
  IF \/ widget.x < 0
     \/ widget.y < 0
     \/ widget.x + widget.width > cols
     \/ widget.y + widget.height > rows
  THEN [isValid |-> FALSE,
        suggestedPosition |-> clampGridPosition(widget.x, widget.y, cols, rows,
                                                widget.width, widget.height)]
  ELSE IF po /\ \E i \in 1..Len(allWidgets) : checkCollision(widget, allWidgets[i])
       THEN [isValid |-> FALSE,
             suggestedPosition |->
               OrOrigin(getNextAvailablePosition(Rects(allWidgets), cols, rows,
                                                 widget.width, widget.height))]
       ELSE [isValid |-> TRUE]

validateWidgetPosition(widget, allWidgets, cols, rows, po) ==
  IF \/ widget.x < 0
     \/ widget.y < 0
     \/ widget.x + widget.width > cols
     \/ widget.y + widget.height > rows
  THEN [isValid |-> FALSE,
        suggestedPosition |-> clampGridPosition(widget.x, widget.y, cols, rows,
                                                widget.width, widget.height)]
  ELSE IF po /\ \E i \in 1..Len(allWidgets) :
                   allWidgets[i].id # widget.id /\ checkCollision(widget, allWidgets[i])
       THEN [isValid |-> FALSE,
             suggestedPosition |->
               OrOrigin(getNextAvailablePosition(Rects(allWidgets), cols, rows,
                                                 widget.width, widget.height))]
       ELSE [isValid |-> TRUE]

(***************************************************************************)
(* gridUtils.ts : reflowWidgets                                            *)
(***************************************************************************)
\* the comparator without the active-widget-first rule
Compare_ReadingOrderOnly(a, b, activeId) ==
  IF a.y = b.y THEN a.x - b.x
  ELSE a.y - b.y

\* the comparator ordering the others by (x asc, y asc)
Compare_ColumnOrder(a, b, activeId) ==
  IF activeId # Undefined /\ a.id = activeId THEN -1
  ELSE IF activeId # Undefined /\ b.id = activeId THEN 1
  ELSE IF a.x = b.x THEN a.y - b.y
  ELSE a.x - b.x

\* the comparator handed to sort: negative when a goes first
Compare(a, b, activeId) ==
  IF activeId # Undefined /\ a.id = activeId THEN -1
  ELSE IF activeId # Undefined /\ b.id = activeId THEN 1
  ELSE IF a.y = b.y THEN a.x - b.x
  ELSE a.y - b.y

\* insert w into the sorted sequence s behind every element that does not
\* compare greater than it (Array.prototype.sort is stable)
RECURSIVE InsertSorted(_, _, _)
InsertSorted(s, w, activeId) ==
  IF s = <<>> THEN <<w>>
  ELSE IF Compare(s[Len(s)], w, activeId) <= 0 THEN Append(s, w)
  ELSE Append(InsertSorted(SubSeq(s, 1, Len(s) - 1), w, activeId), s[Len(s)])

RECURSIVE SortWidgets(_, _)
SortWidgets(ws, activeId) ==
  IF ws = <<>> THEN <<>>
  ELSE InsertSorted(SortWidgets(SubSeq(ws, 1, Len(ws) - 1), activeId),
                    ws[Len(ws)], activeId)

\* the keys `${x + dx},${y + dy}` of the cells of a width x height rectangle
\* at (x, y); a key is kept as the pair it is formatted from
CellKeys(x, y, width, height) ==
  {<<x + dx, y + dy>> : dx \in 0..(width - 1), dy \in 0..(height - 1)}

\* canPlaceWidget that never looks at the occupancy map
canPlaceWidget_IgnoresMap(gridMap, widget, x, y, cols, rows) ==
  ~(x < 0 \/ y < 0 \/ x + widget.width > cols \/ y + widget.height > rows)

\* canPlaceWidget without the bounds test
canPlaceWidget_NoBounds(gridMap, widget, x, y, cols, rows) ==
  \A key \in CellKeys(x, y, widget.width, widget.height) :
    ~(key \in DOMAIN gridMap /\ gridMap[key] # widget.id)

canPlaceWidget(gridMap, widget, x, y, cols, rows) ==
  IF \/ x < 0
     \/ y < 0
     \/ x + widget.width > cols
     \/ y + widget.height > rows
  THEN FALSE
  ELSE \A key \in CellKeys(x, y, widget.width, widget.height) :
         ~(key \in DOMAIN gridMap /\ gridMap[key] # widget.id)

occupyCells(gridMap, widget, x, y) ==
  LET keys == CellKeys(x, y, widget.width, widget.height)
  IN  [key \in (DOMAIN gridMap) \cup keys |->
         IF key \in keys THEN widget.id ELSE gridMap[key]]

\* findNextPosition that never tries the position the widget came with
findNextPosition_AlwaysSearches(gridMap, placed, widget, cols, rows) ==
  OrOrigin(getNextAvailablePosition(Rects(placed), cols, rows,
                                    widget.width, widget.height))

findNextPosition(gridMap, placed, widget, cols, rows) ==
  IF canPlaceWidget(gridMap, widget, widget.x, widget.y, cols, rows)
  THEN [x |-> widget.x, y |-> widget.y]
  ELSE OrOrigin(getNextAvailablePosition(Rects(placed), cols, rows,
                                         widget.width, widget.height))

\* the loop marking the cells of the rectangle the widget came with instead
\* of the cells of the rectangle it was given
RECURSIVE PlaceFrom_OccupiesRequested(_, _, _, _, _, _)
PlaceFrom_OccupiesRequested(ordered, i, placed, gridMap, cols, rows) ==
  IF i > Len(ordered) THEN placed
  ELSE LET widget == ordered[i]
           pos == findNextPosition(gridMap, placed, widget, cols, rows)
           finalWidget == [widget EXCEPT !.x = pos.x, !.y = pos.y]
       IN  PlaceFrom_OccupiesRequested(ordered, i + 1, Append(placed, finalWidget),
                     occupyCells(gridMap, finalWidget, widget.x, widget.y), cols, rows)

\* the loop searching free space among the placed widgets and the widgets
\* still to be processed
RECURSIVE PlaceFrom_FinderSeesAll(_, _, _, _, _, _)
PlaceFrom_FinderSeesAll(ordered, i, placed, gridMap, cols, rows) ==
  IF i > Len(ordered) THEN placed
  ELSE LET widget == ordered[i]
           pos == findNextPosition(gridMap, placed \o SubSeq(ordered, i + 1, Len(ordered)),
                                   widget, cols, rows)
           finalWidget == [widget EXCEPT !.x = pos.x, !.y = pos.y]
       IN  PlaceFrom_FinderSeesAll(ordered, i + 1, Append(placed, finalWidget),
                     occupyCells(gridMap, finalWidget, pos.x, pos.y), cols, rows)

\* the for loop over orderedWidgets, from index i on
RECURSIVE PlaceFrom(_, _, _, _, _, _)
PlaceFrom(ordered, i, placed, gridMap, cols, rows) ==
  IF i > Len(ordered) THEN placed
  ELSE LET widget == ordered[i]
           pos == findNextPosition(gridMap, placed, widget, cols, rows)
           finalWidget == [widget EXCEPT !.x = pos.x, !.y = pos.y]
       IN  PlaceFrom(ordered, i + 1, Append(placed, finalWidget),
                     occupyCells(gridMap, finalWidget, pos.x, pos.y), cols, rows)

\* the clamp branch building each widget anew with the default type
ClampEach_DefaultType(ws, cols, rows) ==
  [i \in 1..Len(ws) |->
     LET c == clampGridPosition(ws[i].x, ws[i].y, cols, rows, ws[i].width, ws[i].height)
     IN  [ws[i] EXCEPT !.x = c.x, !.y = c.y, !.type = "default"]]

\* the preventOverlap = false branch
ClampEach(ws, cols, rows) ==
  [i \in 1..Len(ws) |->
     LET c == clampGridPosition(ws[i].x, ws[i].y, cols, rows, ws[i].width, ws[i].height)
     IN  [ws[i] EXCEPT !.x = c.x, !.y = c.y]]

\* reflowWidgets resolving collisions whatever the flag
reflowWidgets_AlwaysResolves(ws, cols, rows, po, activeId) ==
  PlaceFrom(SortWidgets(ws, activeId), 1, <<>>, <<>>, cols, rows)

reflowWidgets(ws, cols, rows, po, activeId) ==
  IF ~po THEN ClampEach(ws, cols, rows)
  ELSE PlaceFrom(SortWidgets(ws, activeId), 1, <<>>, <<>>, cols, rows)

(***************************************************************************)
(* Arguments                                                               *)
(***************************************************************************)
\* rectangles no larger than the grid, at most Slack cells outside it
RectsOn(cols, rows) ==
  {[x |-> x, y |-> y, width |-> w, height |-> h] :
     x \in (0 - Slack)..cols, y \in (0 - Slack)..rows, w \in 1..cols, h \in 1..rows}

FittingRects(cols, rows) ==
  {r \in RectsOn(cols, rows) :
     /\ r.x <= cols - r.width + Slack
     /\ r.y <= rows - r.height + Slack}

\* the payload of a widget (type, props, ...) is opaque to the layout code:
\* one field, type, stands for it, different for every identifier
AsWidget(id, r) ==
  [id |-> id, x |-> r.x, y |-> r.y, width |-> r.width, height |-> r.height,
   type |-> "type-of-" \o id]

\* widget lists with the identifiers widget-1 .. widget-n
WidgetLists(cols, rows) ==
  UNION {{[i \in 1..n |-> AsWidget(WidgetId(i), rs[i])] :
            rs \in [1..n -> FittingRects(cols, rows)]} : n \in 0..MaxWidgets}

IdsOf(ws) == {ws[i].id : i \in 1..Len(ws)}

InBounds(r, cols, rows) ==
  r.x >= 0 /\ r.y >= 0 /\ r.x + r.width <= cols /\ r.y + r.height <= rows

\* the grid cells a rectangle covers
Cells(r) == {<<cx, cy>> : cx \in r.x..(r.x + r.width - 1), cy \in r.y..(r.y + r.height - 1)}

ShareCell(a, b) == Cells(a) \cap Cells(b) # {}

(***************************************************************************)
(* Specification of reflowWidgets                                          *)
(***************************************************************************)
\* the forced-reflow scenario: A = widget-1 moved to (1,0), B = widget-2
ScenarioWidgets ==
  <<AsWidget(WidgetId(1), [x |-> 1, y |-> 0, width |-> 2, height |-> 2]),
    AsWidget(WidgetId(2), [x |-> 2, y |-> 0, width |-> 2, height |-> 2])>>

\* the arguments are drawn from the bounded sets, or are the ones of the
\* forced-reflow scenario on the 4 x 4 grid
InitReflow ==
  /\ pc = "reflow"
  /\ \/ /\ gridCols \in 1..MaxCols
        /\ gridRows \in 1..MaxRows
        /\ widgets \in WidgetLists(gridCols, gridRows)
        /\ preventOverlap \in BOOLEAN
        /\ activeWidgetId \in IdsOf(widgets) \cup {Undefined}
     \/ /\ gridCols = 4
        /\ gridRows = 4
        /\ widgets = ScenarioWidgets
        /\ preventOverlap = TRUE
        /\ activeWidgetId = WidgetId(1)
  /\ probe = Unused
  /\ result = Unused
  /\ result2 = Unused /\ result3 = Unused
  /\ hiddenGroups = Unused /\ groupFilters = Unused /\ onGroupFiltersChange = Unused
  /\ draggedId = Unused /\ preview = Unused /\ hasMoved = Unused
  /\ fired = Unused /\ defaultWidgetSize = Unused

\* reflowWidgets(widgets, gridCols, gridRows, preventOverlap, activeWidgetId)
Reflow ==
  /\ pc = "reflow"
  /\ result' = reflowWidgets(widgets, gridCols, gridRows, preventOverlap, activeWidgetId)
  /\ pc' = "reflowed"
  /\ UNCHANGED <<widgets, gridCols, gridRows, preventOverlap, activeWidgetId, probe, result2,
               draggedId, preview, hasMoved, fired, defaultWidgetSize,
               result3, hiddenGroups, groupFilters, onGroupFiltersChange>>

\* the same call on the list the first call returned
ReflowAgain ==
  /\ pc = "reflowed"
  /\ result2' = reflowWidgets(result, gridCols, gridRows, preventOverlap, activeWidgetId)
  /\ pc' = "reflowedTwice"
  /\ UNCHANGED <<widgets, gridCols, gridRows, preventOverlap, activeWidgetId, probe, result,
               draggedId, preview, hasMoved, fired, defaultWidgetSize,
               result3, hiddenGroups, groupFilters, onGroupFiltersChange>>

\* the occupancy map a call leaves behind after placing the widgets of placed
RECURSIVE MapAfter(_)
MapAfter(placed) ==
  IF placed = <<>> THEN <<>>
  ELSE LET last == placed[Len(placed)]
       IN  occupyCells(MapAfter(SubSeq(placed, 1, Len(placed) - 1)), last, last.x, last.y)

\* the first call again, with gridMap kept from the call before instead of
\* being created by the call
ReflowSame_KeepsGridMap ==
  /\ pc = "reflowedTwice"
  /\ result3' = IF ~preventOverlap THEN ClampEach(widgets, gridCols, gridRows)
                ELSE PlaceFrom(SortWidgets(widgets, activeWidgetId), 1, <<>>,
                               MapAfter(result2), gridCols, gridRows)
  /\ pc' = "reflowedThrice"
  /\ UNCHANGED <<widgets, gridCols, gridRows, preventOverlap, activeWidgetId, probe, result,
               result2, draggedId, preview, hasMoved, fired, defaultWidgetSize,
               hiddenGroups, groupFilters, onGroupFiltersChange>>

\* the first call again, after the call on another list
ReflowSame ==
  /\ pc = "reflowedTwice"
  /\ result3' = reflowWidgets(widgets, gridCols, gridRows, preventOverlap, activeWidgetId)
  /\ pc' = "reflowedThrice"
  /\ UNCHANGED <<widgets, gridCols, gridRows, preventOverlap, activeWidgetId, probe, result,
               result2, draggedId, preview, hasMoved, fired, defaultWidgetSize,
               hiddenGroups, groupFilters, onGroupFiltersChange>>

NextReflow == Reflow \/ ReflowAgain \/ ReflowSame

SpecReflow == InitReflow /\ [][NextReflow]_vars

(***************************************************************************)
(* Properties of reflowWidgets                                             *)
(***************************************************************************)
Reflowed == pc \in {"reflowed", "reflowedTwice"}

IdSeq(ws) == [i \in 1..Len(ws) |-> ws[i].id]

\* the widget of ws with identifier id
ById(ws, id) == ws[CHOOSE i \in 1..Len(ws) : ws[i].id = id]

PairwiseDisjoint(ws) ==
  \A i, j \in 1..Len(ws) : i < j => ~ShareCell(ws[i], ws[j])

\* the in-bounds positions at which a w x h rectangle shares no cell with a
\* rectangle of occupied
FreePositions(occupied, cols, rows, w, h) ==
  {p \in [x : 0..(cols - w), y : 0..(rows - h)] :
     \A i \in 1..Len(occupied) :
       ~ShareCell([x |-> p.x, y |-> p.y, width |-> w, height |-> h], occupied[i])}

\* out lists the widgets in the order they were placed; the widget placed
\* i-th had nowhere to go: it could not keep the rectangle it came with and
\* no position was free of the widgets placed before it
NoRoomFor(out, i, before, cols, rows) ==
  LET w == ById(before, out[i].id)
      placed == SubSeq(out, 1, i - 1)
  IN  /\ ~(InBounds(w, cols, rows) /\ \A j \in 1..(i - 1) : ~ShareCell(w, placed[j]))
      /\ FreePositions(placed, cols, rows, w.width, w.height) = {}

EveryWidgetHadRoom(out, before, cols, rows) ==
  \A i \in 1..Len(out) : ~NoRoomFor(out, i, before, cols, rows)

\* C1 as stated: with preventOverlap = true no two widgets of the output of
\* reflowWidgets overlap, whatever the input.
C1_NoOverlapWhatever ==
  (Reflowed /\ preventOverlap) => PairwiseDisjoint(result)

\* C1 amended: with preventOverlap = true no two widgets of the output
\* overlap, provided every widget that could not keep its rectangle had a
\* free in-bounds position clear of the widgets placed before it.
C1_NoOverlapWhenRoom ==
  (Reflowed /\ preventOverlap /\ EveryWidgetHadRoom(result, widgets, gridCols, gridRows))
    => PairwiseDisjoint(result)

\* two input widgets overlapped, every widget had room and one was moved
C1_Witness ==
  /\ Reflowed /\ preventOverlap
  /\ EveryWidgetHadRoom(result, widgets, gridCols, gridRows)
  /\ ~PairwiseDisjoint(widgets)
  /\ \E i \in 1..Len(widgets) :
       InBounds(widgets[i], gridCols, gridRows)
       /\ ById(result, widgets[i].id).x # widgets[i].x

\* C2: for both values of preventOverlap and any activeWidgetId every
\* rectangle of the output of reflowWidgets is in-bounds (the input widgets
\* are no larger than the grid).
C2_OutputInBounds ==
  Reflowed => \A i \in 1..Len(result) : InBounds(result[i], gridCols, gridRows)

\* an out-of-bounds widget went through the collision-resolving branch
C2_Witness ==
  /\ Reflowed /\ preventOverlap
  /\ Len(result) = Len(widgets)
  /\ \E i \in 1..Len(widgets) : widgets[i].x < 0
  /\ \E i \in 1..Len(widgets) : widgets[i].y + widgets[i].height > gridRows

\* C3: the identifier sequence of the output of reflowWidgets equals the
\* identifier sequence of its input.
C3_OrderPreserved ==
  Reflowed => IdSeq(result) = IdSeq(widgets)

\* C4 as stated: with preventOverlap = true, reflowWidgets applied to its own
\* output returns that output.
C4_Idempotent ==
  (pc = "reflowedTwice" /\ preventOverlap) => result2 = result

SamePlacement(ws1, ws2) ==
  /\ IdsOf(ws1) = IdsOf(ws2)
  /\ Len(ws1) = Len(ws2)
  /\ \A id \in IdsOf(ws1) : ById(ws1, id) = ById(ws2, id)

\* C4 amended: with preventOverlap = true, when every widget had room in the
\* first call, the second call leaves every widget (matched by identifier)
\* with the coordinates and size the first call gave it.
C4_IdempotentPlacement ==
  (pc = "reflowedTwice" /\ preventOverlap
     /\ EveryWidgetHadRoom(result, widgets, gridCols, gridRows))
    => SamePlacement(result2, result)

\* the first call moved a widget and the second call was made on its output
C4_Witness ==
  /\ pc = "reflowedTwice" /\ preventOverlap
  /\ EveryWidgetHadRoom(result, widgets, gridCols, gridRows)
  /\ \E i \in 1..Len(widgets) : ById(result, widgets[i].id) # widgets[i]
  /\ SamePlacement(result2, result)

ActiveInput == ById(widgets, activeWidgetId)

\* C5: with preventOverlap = true the active widget, when its requested
\* rectangle is in-bounds, has the same x and y in the output as in the input.
C5_ActiveKeepsPosition ==
  (Reflowed /\ preventOverlap /\ activeWidgetId # Undefined
     /\ InBounds(ActiveInput, gridCols, gridRows))
    => /\ ById(result, activeWidgetId).x = ActiveInput.x
       /\ ById(result, activeWidgetId).y = ActiveInput.y

\* the active widget overlapped a widget that precedes it in reading order,
\* and that widget was the one displaced
C5_Witness ==
  /\ Reflowed /\ preventOverlap /\ activeWidgetId # Undefined
  /\ InBounds(ActiveInput, gridCols, gridRows)
  /\ \E i \in 1..Len(widgets) :
       /\ widgets[i].id # activeWidgetId
       /\ ShareCell(widgets[i], ActiveInput)
       /\ \/ widgets[i].y < ActiveInput.y
          \/ (widgets[i].y = ActiveInput.y /\ widgets[i].x < ActiveInput.x)
       /\ ById(result, widgets[i].id) # widgets[i]

\* C6: with preventOverlap = true an active widget whose requested rectangle
\* is out-of-bounds is in the output at the bounds-clamped position
\* (clamp(x, 0, cols - w), clamp(y, 0, rows - h)).
C6_ActiveClamped ==
  (Reflowed /\ preventOverlap /\ activeWidgetId # Undefined
     /\ ~InBounds(ActiveInput, gridCols, gridRows))
    => /\ activeWidgetId \in IdsOf(result)
       /\ ById(result, activeWidgetId).x
            = Min(Max(ActiveInput.x, 0), gridCols - ActiveInput.width)
       /\ ById(result, activeWidgetId).y
            = Min(Max(ActiveInput.y, 0), gridRows - ActiveInput.height)

(***************************************************************************)
(* Specification of checkCollision                                         *)
(***************************************************************************)
InitCollision ==
  /\ pc = "collide"
  /\ gridCols = MaxCols
  /\ gridRows = MaxRows
  /\ widgets \in {[i \in 1..2 |-> AsWidget(WidgetId(i), rs[i])] :
                    rs \in [1..2 -> FittingRects(MaxCols, MaxRows)]}
  /\ preventOverlap = FALSE
  /\ activeWidgetId = Undefined
  /\ probe = Unused
  /\ result = Unused
  /\ result2 = Unused /\ result3 = Unused
  /\ hiddenGroups = Unused /\ groupFilters = Unused /\ onGroupFiltersChange = Unused
  /\ draggedId = Unused /\ preview = Unused /\ hasMoved = Unused
  /\ fired = Unused /\ defaultWidgetSize = Unused

\* checkCollision(widgets[0], widgets[1])
Collide ==
  /\ pc = "collide"
  /\ result' = checkCollision(widgets[1], widgets[2])
  /\ pc' = "collided"
  /\ UNCHANGED <<widgets, gridCols, gridRows, preventOverlap, activeWidgetId, probe, result2,
               draggedId, preview, hasMoved, fired, defaultWidgetSize,
               result3, hiddenGroups, groupFilters, onGroupFiltersChange>>

\* checkCollision(widgets[1], widgets[0])
CollideSwapped ==
  /\ pc = "collided"
  /\ result2' = checkCollision(widgets[2], widgets[1])
  /\ pc' = "collidedSwapped"
  /\ UNCHANGED <<widgets, gridCols, gridRows, preventOverlap, activeWidgetId, probe, result,
               draggedId, preview, hasMoved, fired, defaultWidgetSize,
               result3, hiddenGroups, groupFilters, onGroupFiltersChange>>

NextCollision == Collide \/ CollideSwapped

SpecCollision == InitCollision /\ [][NextCollision]_vars

\* the rectangles meet along an edge or at a corner and share no cell
Touching(a, b) ==
  \/ a.x + a.width = b.x
  \/ b.x + b.width = a.x
  \/ a.y + a.height = b.y
  \/ b.y + b.height = a.y

\* C8: checkCollision is true exactly when the two rectangles share a grid
\* cell, so rectangles that only touch do not collide, and it is symmetric.
C8_CollisionIsSharedCell ==
  /\ pc \in {"collided", "collidedSwapped"} =>
       /\ result = ShareCell(widgets[1], widgets[2])
       /\ Touching(widgets[1], widgets[2]) => ~result
  /\ pc = "collidedSwapped" => result2 = result

\* widgets[1] ends in the column where widgets[2] starts, in the same rows
C8_Witness ==
  /\ pc = "collidedSwapped"
  /\ widgets[1].x + widgets[1].width = widgets[2].x
  /\ widgets[1].y = widgets[2].y
  /\ ~result /\ ~result2

(***************************************************************************)
(* Specification of clampGridPosition                                      *)
(***************************************************************************)
InitClamp ==
  /\ pc = "clamp"
  /\ gridCols \in 1..MaxCols
  /\ gridRows \in 1..MaxRows
  /\ probe \in [x : (0 - Slack - 1)..(gridCols + Slack),
                y : (0 - Slack - 1)..(gridRows + Slack),
                width : 1..gridCols, height : 1..gridRows]
  /\ widgets = Unused
  /\ preventOverlap = FALSE
  /\ activeWidgetId = Undefined
  /\ result = Unused
  /\ result2 = Unused /\ result3 = Unused
  /\ hiddenGroups = Unused /\ groupFilters = Unused /\ onGroupFiltersChange = Unused
  /\ draggedId = Unused /\ preview = Unused /\ hasMoved = Unused
  /\ fired = Unused /\ defaultWidgetSize = Unused

\* clampGridPosition(probe.x, probe.y, gridCols, gridRows, probe.width, probe.height)
Clamp ==
  /\ pc = "clamp"
  /\ result' = clampGridPosition(probe.x, probe.y, gridCols, gridRows,
                                 probe.width, probe.height)
  /\ pc' = "clamped"
  /\ UNCHANGED <<widgets, gridCols, gridRows, preventOverlap, activeWidgetId, probe, result2,
               draggedId, preview, hasMoved, fired, defaultWidgetSize,
               result3, hiddenGroups, groupFilters, onGroupFiltersChange>>

\* the same call on the position the first call returned
ClampAgain ==
  /\ pc = "clamped"
  /\ result2' = clampGridPosition(result.x, result.y, gridCols, gridRows,
                                  probe.width, probe.height)
  /\ pc' = "clampedTwice"
  /\ UNCHANGED <<widgets, gridCols, gridRows, preventOverlap, activeWidgetId, probe, result,
               draggedId, preview, hasMoved, fired, defaultWidgetSize,
               result3, hiddenGroups, groupFilters, onGroupFiltersChange>>

NextClamp == Clamp \/ ClampAgain

SpecClamp == InitClamp /\ [][NextClamp]_vars

\* C9: for a size that fits the grid clampGridPosition returns
\* (min(max(x,0), cols-w), min(max(y,0), rows-h)); the rectangle there is
\* in-bounds, an in-bounds position is returned unchanged, and clamping twice
\* equals clamping once.
C9_Clamp ==
  /\ pc \in {"clamped", "clampedTwice"} =>
       /\ result.x = Min(Max(probe.x, 0), gridCols - probe.width)
       /\ result.y = Min(Max(probe.y, 0), gridRows - probe.height)
       /\ InBounds([probe EXCEPT !.x = result.x, !.y = result.y], gridCols, gridRows)
       /\ InBounds(probe, gridCols, gridRows) => (result.x = probe.x /\ result.y = probe.y)
  /\ pc = "clampedTwice" => result2 = result

\* a position left of the grid and below it was clamped, twice
C9_Witness ==
  /\ pc = "clampedTwice"
  /\ probe.x < 0
  /\ probe.y + probe.height > gridRows
  /\ probe.width < gridCols
  /\ result.x = 0

(***************************************************************************)
(* Specification of getNextAvailablePosition                               *)
(***************************************************************************)
\* the first-fit example: {0,0,2,2} occupied on a 4 x 4 grid
ExampleOccupied ==
  <<AsWidget(WidgetId(1), [x |-> 0, y |-> 0, width |-> 2, height |-> 2])>>

InitFinder ==
  /\ pc = "find"
  /\ \/ /\ gridCols \in 1..MaxCols
        /\ gridRows \in 1..MaxRows
        /\ widgets \in WidgetLists(gridCols, gridRows)
        /\ probe \in [width : 1..(gridCols + 1), height : 1..(gridRows + 1)]
     \/ /\ gridCols = 4
        /\ gridRows = 4
        /\ widgets \in {<<>>, ExampleOccupied}
        /\ probe = [width |-> 2, height |-> 2]
  /\ preventOverlap = FALSE
  /\ activeWidgetId = Undefined
  /\ result = Unused
  /\ result2 = Unused /\ result3 = Unused
  /\ hiddenGroups = Unused /\ groupFilters = Unused /\ onGroupFiltersChange = Unused
  /\ draggedId = Unused /\ preview = Unused /\ hasMoved = Unused
  /\ fired = Unused /\ defaultWidgetSize = Unused

\* getNextAvailablePosition(widgets.map(...), gridCols, gridRows, probe.width, probe.height)
FindFree ==
  /\ pc = "find"
  /\ result' = getNextAvailablePosition(Rects(widgets), gridCols, gridRows,
                                        probe.width, probe.height)
  /\ pc' = "found"
  /\ UNCHANGED <<widgets, gridCols, gridRows, preventOverlap, activeWidgetId, probe, result2,
               draggedId, preview, hasMoved, fired, defaultWidgetSize,
               result3, hiddenGroups, groupFilters, onGroupFiltersChange>>

NextFinder == FindFree

SpecFinder == InitFinder /\ [][NextFinder]_vars

\* p comes no later than q in reading order: smaller y, then smaller x
ReadsBefore(p, q) == p.y < q.y \/ (p.y = q.y /\ p.x <= q.x)

\* C7: getNextAvailablePosition returns the free in-bounds position with the
\* smallest y and among those the smallest x, and null exactly when no free
\* position exists; with {0,0,2,2} occupied on a 4 x 4 grid a 2 x 2 request
\* yields (2,0).
C7_FirstFit ==
  pc = "found" =>
    LET free == FreePositions(widgets, gridCols, gridRows, probe.width, probe.height)
    IN  /\ IsNull(result) <=> free = {}
        /\ ~IsNull(result) => (result \in free /\ \A p \in free : ReadsBefore(result, p))
        /\ (probe.width > gridCols \/ probe.height > gridRows) => IsNull(result)
        /\ (gridCols = 4 /\ gridRows = 4 /\ widgets = ExampleOccupied)
             => result = [x |-> 2, y |-> 0]

\* the example: {0,0,2,2} occupied on the 4 x 4 grid, the answer is (2,0)
C7_Witness ==
  /\ pc = "found"
  /\ gridCols = 4 /\ gridRows = 4
  /\ widgets = ExampleOccupied
  /\ result = [x |-> 2, y |-> 0]

(***************************************************************************)
(* Specification of validateWidgetPosition                                 *)
(***************************************************************************)
\* widget lists whose widgets are all in-bounds
InBoundsLists(cols, rows) ==
  {ws \in WidgetLists(cols, rows) :
     \A i \in 1..Len(ws) : InBounds(ws[i], cols, rows)}

\* the validated widget carries the identifier of a widget of the list or a
\* new one
InitValidate ==
  /\ pc = "validate"
  /\ gridCols \in 1..MaxCols
  /\ gridRows \in 1..MaxRows
  /\ widgets \in InBoundsLists(gridCols, gridRows)
  /\ probe \in {AsWidget(id, r) :
                  id \in IdsOf(widgets) \cup {WidgetId(Len(widgets) + 1)},
                  r \in FittingRects(gridCols, gridRows)}
  /\ preventOverlap \in BOOLEAN
  /\ activeWidgetId = Undefined
  /\ result = Unused
  /\ result2 = Unused /\ result3 = Unused
  /\ hiddenGroups = Unused /\ groupFilters = Unused /\ onGroupFiltersChange = Unused
  /\ draggedId = Unused /\ preview = Unused /\ hasMoved = Unused
  /\ fired = Unused /\ defaultWidgetSize = Unused

\* validateWidgetPosition(probe, widgets, gridCols, gridRows, preventOverlap)
Validate ==
  /\ pc = "validate"
  /\ result' = validateWidgetPosition(probe, widgets, gridCols, gridRows, preventOverlap)
  /\ pc' = "validated"
  /\ UNCHANGED <<widgets, gridCols, gridRows, preventOverlap, activeWidgetId, probe, result2,
               draggedId, preview, hasMoved, fired, defaultWidgetSize,
               result3, hiddenGroups, groupFilters, onGroupFiltersChange>>

NextValidate == Validate

SpecValidate == InitValidate /\ [][NextValidate]_vars

\* the widgets of the list, other than probe's own entry, that probe overlaps
OthersHit == {i \in 1..Len(widgets) : widgets[i].id # probe.id /\ ShareCell(probe, widgets[i])}

\* C10: validateWidgetPosition answers valid, with no suggested position,
\* exactly when the rectangle is in-bounds and, with preventOverlap = true,
\* overlaps no widget with a different identifier.
C10_ValidIff ==
  pc = "validated" =>
    /\ result.isValid
         <=> (InBounds(probe, gridCols, gridRows) /\ (preventOverlap => OthersHit = {}))
    /\ result.isValid => "suggestedPosition" \notin DOMAIN result

\* with preventOverlap = true a widget lying on its own entry of the list,
\* and on no other widget, is valid
C10_Witness ==
  /\ pc = "validated" /\ preventOverlap
  /\ probe.id \in IdsOf(widgets)
  /\ ShareCell(probe, ById(widgets, probe.id))
  /\ Len(widgets) = 2
  /\ result.isValid

\* C11: for an out-of-bounds rectangle validateWidgetPosition answers invalid
\* and suggests clampGridPosition of the rectangle, whatever preventOverlap
\* and whatever it overlaps; the suggested rectangle is in-bounds.
C11_OutOfBoundsSuggestsClamp ==
  (pc = "validated" /\ ~InBounds(probe, gridCols, gridRows)) =>
    /\ ~result.isValid
    /\ result.suggestedPosition
         = [x |-> Min(Max(probe.x, 0), gridCols - probe.width),
            y |-> Min(Max(probe.y, 0), gridRows - probe.height)]
    /\ InBounds([probe EXCEPT !.x = result.suggestedPosition.x,
                              !.y = result.suggestedPosition.y], gridCols, gridRows)

\* an out-of-bounds rectangle that lies on another widget, preventOverlap on
C11_Witness ==
  /\ pc = "validated" /\ preventOverlap
  /\ probe.x < 0
  /\ OthersHit # {}
  /\ ~result.isValid
  /\ result.suggestedPosition.x = 0

\* the free position that comes first in reading order
FirstFree(free) == CHOOSE p \in free : \A q \in free : ReadsBefore(p, q)

\* the in-bounds rectangle collides with another widget, preventOverlap on
CollidesInBounds ==
  /\ pc = "validated" /\ preventOverlap
  /\ InBounds(probe, gridCols, gridRows)
  /\ OthersHit # {}

SuggestedRect ==
  [probe EXCEPT !.x = result.suggestedPosition.x, !.y = result.suggestedPosition.y]

\* C12 as stated: for a colliding in-bounds rectangle the suggested position
\* is the first free position for its size over the whole list, overlapping
\* no widget of the list, and it is (0,0) exactly when none is free.
C12_SuggestsFreeOriginIffNone ==
  CollidesInBounds =>
    LET free == FreePositions(widgets, gridCols, gridRows, probe.width, probe.height)
    IN  /\ ~result.isValid
        /\ free # {} => /\ result.suggestedPosition = FirstFree(free)
                        /\ \A i \in 1..Len(widgets) : ~ShareCell(SuggestedRect, widgets[i])
        /\ result.suggestedPosition = [x |-> 0, y |-> 0] <=> free = {}

\* C12 amended: for a colliding in-bounds rectangle the suggested position is
\* the first free position for its size over the whole list, overlapping no
\* widget of the list, and it is (0,0) when none is free.
C12_SuggestsFreeElseOrigin ==
  CollidesInBounds =>
    LET free == FreePositions(widgets, gridCols, gridRows, probe.width, probe.height)
    IN  /\ ~result.isValid
        /\ free # {} => /\ result.suggestedPosition = FirstFree(free)
                        /\ \A i \in 1..Len(widgets) : ~ShareCell(SuggestedRect, widgets[i])
        /\ free = {} => result.suggestedPosition = [x |-> 0, y |-> 0]

\* the widget collides with another one and its own entry is in the list;
\* the suggested position is free of both
C12_Witness ==
  /\ CollidesInBounds
  /\ probe.id \in IdsOf(widgets)
  /\ result.suggestedPosition # [x |-> 0, y |-> 0]
  /\ \A i \in 1..Len(widgets) : ~ShareCell(SuggestedRect, widgets[i])

\* C13: with preventOverlap = false reflowWidgets returns every widget, at
\* its index, at clampGridPosition of its own position: no widget moves
\* because of an overlap and an in-bounds widget keeps its position.
C13_ClampOnly ==
  (Reflowed /\ ~preventOverlap) =>
    /\ Len(result) = Len(widgets)
    /\ \A i \in 1..Len(widgets) :
         /\ result[i] = [widgets[i] EXCEPT
                           !.x = Min(Max(widgets[i].x, 0), gridCols - widgets[i].width),
                           !.y = Min(Max(widgets[i].y, 0), gridRows - widgets[i].height)]
         /\ InBounds(widgets[i], gridCols, gridRows) => result[i] = widgets[i]

\* two in-bounds widgets overlap and both stay, a third one is clamped
C13_Witness ==
  /\ Reflowed /\ ~preventOverlap
  /\ Len(widgets) = 2
  /\ ShareCell(widgets[1], widgets[2])
  /\ InBounds(widgets[1], gridCols, gridRows)
  /\ ShareCell(result[1], result[2])
  /\ result[1] = widgets[1]
  /\ result[2] # widgets[2]

\* the widget processed i-th as it was handed to reflowWidgets (the result
\* lists the widgets in the order they were processed)
Requested(i) == ById(widgets, result[i].id)

\* the widget processed i-th shares no cell with a widget placed before it
ClearOfEarlier(i) == \A j \in 1..(i - 1) : ~ShareCell(Requested(i), result[j])

CanKeep(i) == InBounds(Requested(i), gridCols, gridRows) /\ ClearOfEarlier(i)

\* C14: with preventOverlap = true the active widget is processed first, the
\* others in (y ascending, x ascending) order, and a widget whose requested
\* rectangle is in-bounds and shares no cell with the final rectangle of a
\* widget processed before it keeps its position.
C14_OrderAndKeep ==
  (Reflowed /\ preventOverlap) =>
    /\ IdsOf(result) = IdsOf(widgets)
    /\ (activeWidgetId # Undefined /\ Len(result) > 0) => result[1].id = activeWidgetId
    /\ \A i, j \in 1..Len(result) :
         (i < j /\ (activeWidgetId = Undefined \/ result[i].id # activeWidgetId))
           => ReadsBefore(Requested(i), Requested(j))
    /\ \A i \in 1..Len(result) :
         CanKeep(i) => (result[i].x = Requested(i).x /\ result[i].y = Requested(i).y)

\* two in-bounds widgets overlap; the one earlier in reading order, second in
\* the list, kept its position and the other one was moved
C14_Witness ==
  /\ Reflowed /\ preventOverlap /\ activeWidgetId = Undefined
  /\ Len(widgets) = 2
  /\ ShareCell(widgets[1], widgets[2])
  /\ InBounds(widgets[1], gridCols, gridRows)
  /\ InBounds(widgets[2], gridCols, gridRows)
  /\ widgets[2].x < widgets[1].x
  /\ result[1] = widgets[2]
  /\ result[2].id = widgets[1].id /\ result[2] # widgets[1]

\* C15: with preventOverlap = true a widget that cannot keep its rectangle is
\* placed at the first free position for its size among the final rectangles
\* of the widgets placed before it, at (0,0) when there is none, and every
\* widget of the input is placed.
C15_DisplacedToFirstFree ==
  (Reflowed /\ preventOverlap) =>
    /\ Len(result) = Len(widgets)
    /\ \A i \in 1..Len(result) :
         ~CanKeep(i) =>
           LET free == FreePositions(SubSeq(result, 1, i - 1), gridCols, gridRows,
                                     result[i].width, result[i].height)
           IN  [x |-> result[i].x, y |-> result[i].y]
                 = IF free = {} THEN [x |-> 0, y |-> 0] ELSE FirstFree(free)

\* a widget found no free position and lies at (0,0) on a widget placed
\* before it
C15_Witness ==
  /\ Reflowed /\ preventOverlap
  /\ \E i \in 1..Len(result) :
       /\ ~CanKeep(i)
       /\ FreePositions(SubSeq(result, 1, i - 1), gridCols, gridRows,
                        result[i].width, result[i].height) = {}
       /\ result[i].x = 0 /\ result[i].y = 0
       /\ \E j \in 1..(i - 1) : ShareCell(result[i], result[j])

\* C16: for both values of preventOverlap the output of reflowWidgets holds
\* exactly the identifiers of the input, each once, and every widget keeps
\* its width, height and payload.
C16_OnlyCoordinatesChange ==
  Reflowed =>
    /\ Len(result) = Len(widgets)
    /\ IdsOf(result) = IdsOf(widgets)
    /\ \A i, j \in 1..Len(result) : result[i].id = result[j].id => i = j
    /\ \A i \in 1..Len(widgets) :
         LET out == ById(result, widgets[i].id)
         IN  /\ DOMAIN out = DOMAIN widgets[i]
             /\ out.width = widgets[i].width
             /\ out.height = widgets[i].height
             /\ out.type = widgets[i].type

\* both widgets were moved, one of them by the collision-resolving branch
C16_Witness ==
  /\ Reflowed /\ preventOverlap
  /\ Len(widgets) = 2
  /\ \A i \in 1..2 : ById(result, widgets[i].id) # widgets[i]
  /\ InBounds(widgets[2], gridCols, gridRows)

(***************************************************************************)
(* hooks/useWidgetActions.ts and hooks/useDragHandling.ts: the stored      *)
(* widget set, its four operations and the drag gesture, as WidgetGrid.tsx *)
(* wires them (the drag hook reads the stored widgets and its onWidgetMove *)
(* is moveWidget).  fired is the list of callbacks the last handler called.*)
(***************************************************************************)
\* the values Date.now() takes are 0..MaxClock
MaxClock == 1
\* addWidget is not called once the next identifier number passes MaxIdNumber
MaxIdNumber == 2
\* the largest grid useWidgetActions is given
MaxHookCols == 2
MaxHookRows == 1
\* the largest grid useDragHandling is given
MaxDragCols == 2
MaxDragRows == 2
\* cellWidth and cellHeight, in pixels
CellSize == 2

\* draggedId = null
NullId == "null"
\* an identifier no widget carries
MissingId == "missing"

\* `widget-${n}-${timestamp}`
MakeId(n, t) == "widget-" \o ToString(n) \o "-" \o ToString(t)

\* w.id.match(/widget-(\d+)/) and parseInt of the group, 0 without a match
IdNumber(id) ==
  IF \E n \in 0..(MaxIdNumber + 1) :
       id = WidgetId(n) \/ \E t \in 0..(MaxClock + 1) : id = MakeId(n, t)
  THEN CHOOSE n \in 0..(MaxIdNumber + 1) :
         id = WidgetId(n) \/ \E t \in 0..(MaxClock + 1) : id = MakeId(n, t)
  ELSE 0

\* Math.max(0, ...existingIds)
Highest(ws) ==
  LET existingIds == {0} \cup {IdNumber(ws[i].id) : i \in 1..Len(ws)}
  IN  CHOOSE n \in existingIds : \A m \in existingIds : m <= n

\* generateUniqueId numbering by the size of the set, not by the highest
\* number in use
generateUniqueId_CountsWidgets(ws, timestamp) == MakeId(Len(ws) + 1, timestamp)

generateUniqueId(ws, timestamp) == MakeId(Highest(ws) + 1, timestamp)

\* Math.round(n / d) for d > 0: halves round up
Round(n, d) == (2 * n + d) \div (2 * d)

\* a call of a callback prop (or of alert)
Call(cb, arg) == [cb |-> cb, arg |-> arg]

\* widgets.map(w => w.id === id ? replacement : w)
Replace(ws, id, replacement) ==
  [i \in 1..Len(ws) |-> IF ws[i].id = id THEN replacement ELSE ws[i]]

\* moveWidget: the widget list it stores and the callbacks it calls
moveWidget(ws, id, x, y, cols, rows, po) ==
  IF id \notin IdsOf(ws) THEN [widgets |-> ws, fired |-> <<>>]
  ELSE LET widget == ById(ws, id)
           movedWidget == [widget EXCEPT !.x = x, !.y = y]
           mapped == Replace(ws, id, movedWidget)
           updatedWidgets == IF po THEN reflowWidgets(mapped, cols, rows, TRUE, id)
                             ELSE mapped
       IN  [widgets |-> updatedWidgets,
            fired |-> <<Call("onWidgetMove", movedWidget),
                        Call("onWidgetsChange", updatedWidgets)>>]

\* calculateReflow handing reflowWidgets the moved widget and the widgets it
\* overlaps only
calculateReflow_OverlappingOnly(movedWidget, ws, cols, rows) ==
  LET overlapping == SelectSeq(ws, LAMBDA w :
                       w.id # movedWidget.id /\ checkCollision(movedWidget, w))
      testWidgets == <<movedWidget>> \o overlapping
      reflowed == reflowWidgets(testWidgets, cols, rows, TRUE, movedWidget.id)
      moved == SelectSeq(reflowed, LAMBDA w :
                 /\ w.id \in IdsOf(ws)
                 /\ w.id # movedWidget.id
                 /\ (ById(ws, w.id).x # w.x \/ ById(ws, w.id).y # w.y))
  IN  IF Len(overlapping) = 0
      THEN [isValid |-> TRUE, reflowPreviews |-> <<>>]
      ELSE [isValid |-> TRUE,
            reflowPreviews |->
              [i \in 1..Len(moved) |->
                 [id |-> moved[i].id, x |-> moved[i].x, y |-> moved[i].y,
                  width |-> moved[i].width, height |-> moved[i].height]]]

\* calculateReflow of the drag hook over the widgets ws
calculateReflow(movedWidget, ws, cols, rows) ==
  LET overlapping == SelectSeq(ws, LAMBDA w :
                       w.id # movedWidget.id /\ checkCollision(movedWidget, w))
      rest == SelectSeq(ws, LAMBDA w :
                /\ w.id # movedWidget.id
                /\ ~\E k \in 1..Len(overlapping) : overlapping[k].id = w.id)
      testWidgets == <<movedWidget>> \o overlapping \o rest
      reflowed == reflowWidgets(testWidgets, cols, rows, TRUE, movedWidget.id)
      moved == SelectSeq(reflowed, LAMBDA w :
                 /\ w.id \in IdsOf(ws)
                 /\ w.id # movedWidget.id
                 /\ (ById(ws, w.id).x # w.x \/ ById(ws, w.id).y # w.y))
  IN  IF Len(overlapping) = 0
      THEN [isValid |-> TRUE, reflowPreviews |-> <<>>]
      ELSE [isValid |-> TRUE,
            reflowPreviews |->
              [i \in 1..Len(moved) |->
                 [id |-> moved[i].id, x |-> moved[i].x, y |-> moved[i].y,
                  width |-> moved[i].width, height |-> moved[i].height]]]

\* the sizes defaultWidgetSize may have: the ones that fit the grid
Init ==
  /\ gridCols \in 1..MaxHookCols
  /\ gridRows \in 1..MaxHookRows
  /\ preventOverlap \in BOOLEAN
  /\ defaultWidgetSize \in [w : 1..gridCols, h : 1..gridRows]
  /\ widgets = <<>>
  /\ draggedId = NullId
  /\ preview = Null
  /\ hasMoved = FALSE
  /\ fired = <<>>
  /\ pc = Unused /\ activeWidgetId = Unused
  /\ probe = Unused /\ result = Unused /\ result2 = Unused /\ result3 = Unused
  /\ hiddenGroups = Unused /\ groupFilters = Unused /\ onGroupFiltersChange = Unused

\* addWidget putting the new widget at (0,0) when the grid has no room
addWidget_OriginWhenFull(ws, timestamp, cols, rows, size, po) ==
  LET position == OrOrigin(getNextAvailablePosition(Rects(ws), cols, rows, size.w, size.h))
      newWidget == [id |-> generateUniqueId(ws, timestamp),
                    width |-> size.w,
                    height |-> size.h,
                    x |-> position.x, y |-> position.y,
                    type |-> "default"]
      updatedWidgets == Append(ws, newWidget)
  IN  [widgets |-> updatedWidgets,
       fired |-> <<Call("onWidgetAdd", newWidget),
                   Call("onWidgetsChange", updatedWidgets)>>]

\* addWidget() with the default type: the widget list it stores and the
\* callbacks it calls
addWidget(ws, timestamp, cols, rows, size, po) ==
  LET position == getNextAvailablePosition(Rects(ws), cols, rows, size.w, size.h)
  IN  IF IsNull(position)
      THEN [widgets |-> ws,
            fired |-> <<Call("alert", "No more space available on the grid for new widgets!")>>]
      ELSE LET newWidget == [id |-> generateUniqueId(ws, timestamp),
                             width |-> size.w,
                             height |-> size.h,
                             x |-> position.x, y |-> position.y,
                             type |-> "default"]
               validation == validateWidgetPosition(newWidget, ws, cols, rows, po)
               finalWidget == IF validation.isValid THEN newWidget
                              ELSE [newWidget EXCEPT
                                      !.x = validation.suggestedPosition.x,
                                      !.y = validation.suggestedPosition.y]
               updatedWidgets == Append(ws, finalWidget)
           IN  [widgets |-> updatedWidgets,
                fired |-> <<Call("onWidgetAdd", finalWidget),
                            Call("onWidgetsChange", updatedWidgets)>>]

AddWidget ==
  /\ Len(widgets) < MaxWidgets
  /\ Highest(widgets) < MaxIdNumber
  /\ \E timestamp \in 0..MaxClock :
       LET a == addWidget(widgets, timestamp, gridCols, gridRows, defaultWidgetSize,
                          preventOverlap)
       IN  widgets' = a.widgets /\ fired' = a.fired
  /\ UNCHANGED <<pc, gridCols, gridRows, preventOverlap, activeWidgetId, probe, result,
                 result2, draggedId, preview, hasMoved, defaultWidgetSize,
               result3, hiddenGroups, groupFilters, onGroupFiltersChange>>

\* moveWidget(id, x, y)
MoveWidget ==
  /\ \E id \in IdsOf(widgets) \cup {MissingId},
        x \in (0 - Slack)..gridCols, y \in (0 - Slack)..gridRows :
       LET m == moveWidget(widgets, id, x, y, gridCols, gridRows, preventOverlap)
       IN  widgets' = m.widgets /\ fired' = m.fired
  /\ UNCHANGED <<pc, gridCols, gridRows, preventOverlap, activeWidgetId, probe, result,
                 result2, draggedId, preview, hasMoved, defaultWidgetSize,
               result3, hiddenGroups, groupFilters, onGroupFiltersChange>>

\* resizeWidget clamping the size to the grid, not to the room right of and
\* below the widget's position
resizeWidget_ClampsToGrid(ws, id, width, height, cols, rows, po) ==
  IF id \notin IdsOf(ws) THEN [widgets |-> ws, fired |-> <<>>]
  ELSE LET widget == ById(ws, id)
           resizedWidget == [widget EXCEPT
                               !.width = Max(1, Min(width, cols)),
                               !.height = Max(1, Min(height, rows))]
           hasCollision == \E i \in 1..Len(ws) :
                             /\ ws[i].id # id
                             /\ checkCollision(resizedWidget, ws[i])
           allWidgets == <<resizedWidget>> \o SelectSeq(ws, LAMBDA w : w.id # id)
           updatedWidgets == IF po /\ hasCollision
                             THEN reflowWidgets(allWidgets, cols, rows, TRUE, id)
                             ELSE Replace(ws, id, resizedWidget)
       IN  [widgets |-> updatedWidgets,
            fired |-> <<Call("onWidgetResize", resizedWidget),
                        Call("onWidgetsChange", updatedWidgets)>>]

\* resizeWidget(id, width, height): the widget list it stores and the
\* callbacks it calls
resizeWidget(ws, id, width, height, cols, rows, po) ==
  IF id \notin IdsOf(ws) THEN [widgets |-> ws, fired |-> <<>>]
  ELSE LET widget == ById(ws, id)
           resizedWidget == [widget EXCEPT
                               !.width = Max(1, Min(width, cols - widget.x)),
                               !.height = Max(1, Min(height, rows - widget.y))]
           hasCollision == \E i \in 1..Len(ws) :
                             /\ ws[i].id # id
                             /\ checkCollision(resizedWidget, ws[i])
           allWidgets == <<resizedWidget>> \o SelectSeq(ws, LAMBDA w : w.id # id)
           updatedWidgets == IF po /\ hasCollision
                             THEN reflowWidgets(allWidgets, cols, rows, TRUE, id)
                             ELSE Replace(ws, id, resizedWidget)
       IN  [widgets |-> updatedWidgets,
            fired |-> <<Call("onWidgetResize", resizedWidget),
                        Call("onWidgetsChange", updatedWidgets)>>]

ResizeWidget ==
  /\ \E id \in IdsOf(widgets) \cup {MissingId},
        width \in 0..(gridCols + 1), height \in 0..(gridRows + 1) :
       LET r == resizeWidget(widgets, id, width, height, gridCols, gridRows,
                             preventOverlap)
       IN  widgets' = r.widgets /\ fired' = r.fired
  /\ UNCHANGED <<pc, gridCols, gridRows, preventOverlap, activeWidgetId, probe, result,
                 result2, draggedId, preview, hasMoved, defaultWidgetSize,
               result3, hiddenGroups, groupFilters, onGroupFiltersChange>>

\* deleteWidget(id)
DeleteWidget ==
  /\ \E id \in IdsOf(widgets) \cup {MissingId} :
       LET updatedWidgets == SelectSeq(widgets, LAMBDA w : w.id # id)
       IN  /\ widgets' = updatedWidgets
           /\ fired' = <<Call("onWidgetDelete", id),
                         Call("onWidgetsChange", updatedWidgets)>>
  /\ UNCHANGED <<pc, gridCols, gridRows, preventOverlap, activeWidgetId, probe, result,
                 result2, draggedId, preview, hasMoved, defaultWidgetSize,
               result3, hiddenGroups, groupFilters, onGroupFiltersChange>>

\* handleDragStart: a gesture starts on a rendered widget
HandleDragStart ==
  /\ draggedId = NullId
  /\ \E id \in IdsOf(widgets) : draggedId' = id
  /\ hasMoved' = FALSE
  /\ fired' = <<>>
  /\ UNCHANGED <<pc, widgets, gridCols, gridRows, preventOverlap, activeWidgetId, probe,
                 result, result2, preview, defaultWidgetSize,
               result3, hiddenGroups, groupFilters, onGroupFiltersChange>>

\* handleDragMove: the pointer is delta pixels away from where the gesture
\* started; event.active is the widget the gesture started on
HandleDragMove ==
  /\ draggedId # NullId
  /\ hasMoved' = TRUE
  /\ \E deltaPxX \in (0 - gridCols * CellSize)..(gridCols * CellSize),
        deltaPxY \in (0 - gridRows * CellSize)..(gridRows * CellSize) :
       IF draggedId \notin IdsOf(widgets) THEN preview' = Null
       ELSE LET widget == ById(widgets, draggedId)
                deltaX == Round(deltaPxX, CellSize)
                deltaY == Round(deltaPxY, CellSize)
                previewWidget ==
                  [widget EXCEPT
                     !.x = Max(0, Min(gridCols - widget.width, widget.x + deltaX)),
                     !.y = Max(0, Min(gridRows - widget.height, widget.y + deltaY))]
            IN  IF /\ ~IsNull(preview)
                   /\ preview.x = previewWidget.x
                   /\ preview.y = previewWidget.y
                THEN preview' = preview
                ELSE preview' =
                       [isValid |-> TRUE,
                        reflowPreviews |->
                          calculateReflow(previewWidget, widgets, gridCols,
                                          gridRows).reflowPreviews]
                       @@ previewWidget
  /\ fired' = <<>>
  /\ UNCHANGED <<pc, widgets, gridCols, gridRows, preventOverlap, activeWidgetId, probe,
                 result, result2, draggedId, defaultWidgetSize,
               result3, hiddenGroups, groupFilters, onGroupFiltersChange>>

\* handleDragEnd without the test of preview and hasMoved: a gesture without
\* a preview commits the position the widget already has
HandleDragEnd_CommitsWithoutPreview ==
  /\ draggedId # NullId
  /\ draggedId' = NullId
  /\ preview' = Null
  /\ hasMoved' = FALSE
  /\ LET at == IF IsNull(preview) THEN ById(widgets, draggedId) ELSE preview
         m  == moveWidget(widgets, draggedId, at.x, at.y,
                          gridCols, gridRows, preventOverlap)
     IN  /\ widgets' = m.widgets
         /\ fired' = <<Call("useDragHandling.onWidgetMove",
                            <<draggedId, at.x, at.y>>)>> \o m.fired
  /\ UNCHANGED <<pc, gridCols, gridRows, preventOverlap, activeWidgetId, probe, result,
                 result2, defaultWidgetSize,
               result3, hiddenGroups, groupFilters, onGroupFiltersChange>>

\* handleDragEnd: onWidgetMove is moveWidget
HandleDragEnd ==
  /\ draggedId # NullId
  /\ draggedId' = NullId
  /\ preview' = Null
  /\ hasMoved' = FALSE
  /\ IF IsNull(preview) \/ ~hasMoved \/ ~preview.isValid
     THEN widgets' = widgets /\ fired' = <<>>
     ELSE LET m == moveWidget(widgets, draggedId, preview.x, preview.y,
                              gridCols, gridRows, preventOverlap)
          IN  /\ widgets' = m.widgets
              /\ fired' = <<Call("useDragHandling.onWidgetMove",
                                 <<draggedId, preview.x, preview.y>>)>> \o m.fired
  /\ UNCHANGED <<pc, gridCols, gridRows, preventOverlap, activeWidgetId, probe, result,
                 result2, defaultWidgetSize,
               result3, hiddenGroups, groupFilters, onGroupFiltersChange>>

\* handleDragCancel committing the preview as handleDragEnd does
HandleDragCancel_Commits ==
  /\ preview' = Null
  /\ draggedId' = NullId
  /\ hasMoved' = FALSE
  /\ IF IsNull(preview)
     THEN widgets' = widgets /\ fired' = <<>>
     ELSE LET m == moveWidget(widgets, draggedId, preview.x, preview.y,
                              gridCols, gridRows, preventOverlap)
          IN  /\ widgets' = m.widgets
              /\ fired' = <<Call("useDragHandling.onWidgetMove",
                                 <<draggedId, preview.x, preview.y>>)>> \o m.fired
  /\ UNCHANGED <<pc, gridCols, gridRows, preventOverlap, activeWidgetId, probe, result,
                 result2, defaultWidgetSize,
               result3, hiddenGroups, groupFilters, onGroupFiltersChange>>

\* handleDragCancel
HandleDragCancel ==
  /\ preview' = Null
  /\ draggedId' = NullId
  /\ hasMoved' = FALSE
  /\ fired' = <<>>
  /\ UNCHANGED <<pc, widgets, gridCols, gridRows, preventOverlap, activeWidgetId, probe,
                 result, result2, defaultWidgetSize,
               result3, hiddenGroups, groupFilters, onGroupFiltersChange>>

\* the four operations of useWidgetActions, no gesture under way
Next ==
  \/ AddWidget
  \/ MoveWidget
  \/ ResizeWidget
  \/ DeleteWidget

Spec == Init /\ [][Next]_vars

\* initialWidgets may hold a widget larger than the grid: one widget one
\* column too wide, or one row too high
OversizeLists(cols, rows) ==
  {<<AsWidget(WidgetId(1), [x |-> 0, y |-> 0, width |-> cols + 1, height |-> 1])>>,
   <<AsWidget(WidgetId(1), [x |-> 0, y |-> 0, width |-> 1, height |-> rows + 1])>>}

\* the drag hook over a stored widget set: any list the hook may have been
\* given as initialWidgets
InitDrag ==
  /\ gridCols \in 1..MaxDragCols
  /\ gridRows \in 1..MaxDragRows
  /\ preventOverlap \in BOOLEAN
  /\ widgets \in WidgetLists(gridCols, gridRows) \cup OversizeLists(gridCols, gridRows)
  /\ draggedId = NullId
  /\ preview = Null
  /\ hasMoved = FALSE
  /\ fired = <<>>
  /\ defaultWidgetSize = Unused
  /\ pc = Unused /\ activeWidgetId = Unused
  /\ probe = Unused /\ result = Unused /\ result2 = Unused /\ result3 = Unused
  /\ hiddenGroups = Unused /\ groupFilters = Unused /\ onGroupFiltersChange = Unused

NextDrag ==
  \/ HandleDragStart
  \/ HandleDragMove
  \/ HandleDragEnd
  \/ HandleDragCancel

SpecDrag == InitDrag /\ [][NextDrag]_vars

(***************************************************************************)
(* Claims about the stored widget set                                      *)
(***************************************************************************)
\* C17: with preventOverlap = true and a default widget size that fits the
\* grid, after any sequence of addWidget, moveWidget, resizeWidget and
\* deleteWidget calls from the empty set no two stored widgets share a cell.
C17_StoredSetDisjoint ==
  preventOverlap => PairwiseDisjoint(widgets)

\* C18: after any sequence of addWidget, moveWidget, resizeWidget and
\* deleteWidget calls from the empty set, under either preventOverlap
\* setting, every stored widget is in-bounds.
C18_StoredSetInBounds ==
  \A i \in 1..Len(widgets) : InBounds(widgets[i], gridCols, gridRows)

\* the same with preventOverlap = true only
StoredSetInBoundsWhenPreventing ==
  preventOverlap => \A i \in 1..Len(widgets) : InBounds(widgets[i], gridCols, gridRows)

(***************************************************************************)
(* Claims about the drag gesture                                           *)
(***************************************************************************)
\* the steps of handleDragStart and of handleDragMove: the only handlers
\* that leave a gesture under way
GestureStarts == draggedId = NullId /\ draggedId' # NullId
GestureGoesOn == draggedId # NullId /\ draggedId' = draggedId

\* C19: handleDragStart and handleDragMove call no callback and leave the
\* widget set as it is; handleDragCancel does the same and leaves preview
\* and draggedId null.  Nothing else changes the widget set during a
\* gesture, so a cancelled gesture leaves the set it started with.
C19_NothingCommittedBeforeEnd ==
  [][ /\ (GestureStarts \/ GestureGoesOn) =>
           (widgets' = widgets /\ fired' = <<>>)
      /\ HandleDragCancel =>
           /\ widgets' = widgets
           /\ fired' = <<>>
           /\ preview' = Null
           /\ draggedId' = NullId ]_vars

\* a gesture under way whose preview has the dragged widget elsewhere and
\* pushes another widget away, with no callback called
C19_Witness ==
  /\ draggedId # NullId
  /\ hasMoved
  /\ ~IsNull(preview)
  /\ draggedId \in IdsOf(widgets)
  /\ preview.x # ById(widgets, draggedId).x
  /\ preview.reflowPreviews # <<>>
  /\ fired = <<>>

(***************************************************************************)
(* Specification of calculateReflow: the preview of a candidate position   *)
(* next to reflowWidgets over the whole widget set                         *)
(***************************************************************************)
\* the widget lists of WidgetLists and the lists of MaxWidgets + 1 in-bounds
\* widgets
PreviewLists(cols, rows) ==
  WidgetLists(cols, rows) \cup
    {[i \in 1..(MaxWidgets + 1) |-> AsWidget(WidgetId(i), rs[i])] :
       rs \in [1..(MaxWidgets + 1) ->
                 {r \in FittingRects(cols, rows) : InBounds(r, cols, rows)}]}

\* probe is previewWidget: a widget of the list at a position handleDragMove
\* has clamped into the grid
InitPreview ==
  /\ pc = "preview"
  /\ gridCols \in 1..MaxDragCols
  /\ gridRows \in 1..MaxDragRows
  /\ widgets \in PreviewLists(gridCols, gridRows)
  /\ \E i \in 1..Len(widgets) :
       \E x \in 0..(gridCols - widgets[i].width), y \in 0..(gridRows - widgets[i].height) :
         probe = [widgets[i] EXCEPT !.x = x, !.y = y]
  /\ preventOverlap = Unused
  /\ activeWidgetId = Unused
  /\ result = Unused
  /\ result2 = Unused /\ result3 = Unused
  /\ hiddenGroups = Unused /\ groupFilters = Unused /\ onGroupFiltersChange = Unused
  /\ draggedId = Unused /\ preview = Unused /\ hasMoved = Unused
  /\ fired = Unused /\ defaultWidgetSize = Unused

\* calculateReflow(probe), and reflowWidgets over the stored widgets with the
\* dragged one replaced by probe
Preview ==
  /\ pc = "preview"
  /\ pc' = "previewed"
  /\ result' = calculateReflow(probe, widgets, gridCols, gridRows).reflowPreviews
  /\ result2' = reflowWidgets(Replace(widgets, probe.id, probe), gridCols, gridRows,
                              TRUE, probe.id)
  /\ UNCHANGED <<widgets, gridCols, gridRows, preventOverlap, activeWidgetId, probe,
                 draggedId, preview, hasMoved, fired, defaultWidgetSize,
               result3, hiddenGroups, groupFilters, onGroupFiltersChange>>

NextPreview == Preview

SpecPreview == InitPreview /\ [][NextPreview]_vars

\* the other widgets whose position in the full reflow result2 is not their
\* stored position, with that position
DisplacedByFullReflow ==
  {[id |-> result2[i].id, x |-> result2[i].x, y |-> result2[i].y,
    width |-> result2[i].width, height |-> result2[i].height] :
     i \in {k \in 1..Len(result2) :
              /\ result2[k].id # probe.id
              /\ \/ result2[k].x # ById(widgets, result2[k].id).x
                 \/ result2[k].y # ById(widgets, result2[k].id).y}}

PreviewIsFullReflow ==
  /\ {result[i] : i \in 1..Len(result)} = DisplacedByFullReflow
  /\ Len(result) = Cardinality(DisplacedByFullReflow)

\* the widgets other than the dragged one are in-bounds and share no cell
OthersConsistent ==
  LET others == SelectSeq(widgets, LAMBDA w : w.id # probe.id)
  IN  /\ \A i \in 1..Len(others) : InBounds(others[i], gridCols, gridRows)
      /\ PairwiseDisjoint(others)

\* C20 as stated: for every widget set and candidate the displaced list of
\* the preview is the set of other widgets the full reflow moves, with their
\* new positions.
C20_PreviewIsFullReflowAlways ==
  pc = "previewed" => PreviewIsFullReflow

\* C20 amended: the same when the other widgets are in-bounds and pairwise
\* non-overlapping.
C20_PreviewIsFullReflowWhenConsistent ==
  (pc = "previewed" /\ OthersConsistent) => PreviewIsFullReflow

\* three widgets, the others consistent, and the candidate pushes one away
C20_Witness ==
  /\ pc = "previewed"
  /\ OthersConsistent
  /\ Len(widgets) = MaxWidgets + 1
  /\ result # <<>>
  /\ PreviewIsFullReflow

(***************************************************************************)
(* Further claims about reflowWidgets                                      *)
(***************************************************************************)
\* reflowWidgets has returned for the forced-reflow scenario
ScenarioReflowed ==
  /\ pc = "reflowed"
  /\ gridCols = 4 /\ gridRows = 4
  /\ widgets = ScenarioWidgets
  /\ preventOverlap
  /\ activeWidgetId = WidgetId(1)

\* C21 as stated: in the forced-reflow scenario A stays at (1,0) and B is
\* displaced to (2,2).
C21_ScenarioBAtTwoTwo ==
  ScenarioReflowed =>
    /\ ById(result, WidgetId(1)).x = 1 /\ ById(result, WidgetId(1)).y = 0
    /\ ById(result, WidgetId(2)).x = 2 /\ ById(result, WidgetId(2)).y = 2

\* C21 amended: in the forced-reflow scenario A stays at (1,0) and B is
\* displaced to the first free position in reading order, (0,2).
C21_ScenarioBAtFirstFree ==
  ScenarioReflowed =>
    /\ ById(result, WidgetId(1)).x = 1 /\ ById(result, WidgetId(1)).y = 0
    /\ ById(result, WidgetId(2)).x = 0 /\ ById(result, WidgetId(2)).y = 2
    /\ [x |-> 0, y |-> 2] = FirstFree(FreePositions(<<ById(result, WidgetId(1))>>, 4, 4, 2, 2))

C21_Witness ==
  /\ ScenarioReflowed
  /\ ById(result, WidgetId(2)) # ById(widgets, WidgetId(2))
  /\ ~ShareCell(ById(result, WidgetId(1)), ById(result, WidgetId(2)))

(***************************************************************************)
(* Specification of addWidget: one call on a stored widget list            *)
(***************************************************************************)
\* widgets is the stored list, probe the value of Date.now()
InitAdd ==
  /\ pc = "add"
  /\ gridCols \in 1..MaxDragCols
  /\ gridRows \in 1..MaxDragRows
  /\ preventOverlap \in BOOLEAN
  /\ defaultWidgetSize \in [w : 1..gridCols, h : 1..gridRows]
  /\ widgets \in WidgetLists(gridCols, gridRows)
  /\ probe \in [timestamp : 0..MaxClock]
  /\ activeWidgetId = Unused
  /\ result = Unused
  /\ result2 = Unused /\ result3 = Unused
  /\ draggedId = Unused /\ preview = Unused /\ hasMoved = Unused
  /\ fired = Unused
  /\ hiddenGroups = Unused /\ groupFilters = Unused /\ onGroupFiltersChange = Unused

\* addWidget(): result holds the list it stores and the callbacks it calls
Add ==
  /\ pc = "add"
  /\ pc' = "added"
  /\ result' = addWidget(widgets, probe.timestamp, gridCols, gridRows,
                         defaultWidgetSize, preventOverlap)
  /\ UNCHANGED <<widgets, gridCols, gridRows, preventOverlap, activeWidgetId, probe,
                 result2, draggedId, preview, hasMoved, fired, defaultWidgetSize,
                 result3, hiddenGroups, groupFilters, onGroupFiltersChange>>

NextAdd == Add

SpecAdd == InitAdd /\ [][NextAdd]_vars

\* the positions at which a widget of the default size overlaps no stored
\* widget
FreeForDefault ==
  FreePositions(Rects(widgets), gridCols, gridRows,
                defaultWidgetSize.w, defaultWidgetSize.h)

CallbacksOf(calls) == {calls[i].cb : i \in 1..Len(calls)}

\* C22: addWidget appends one widget of the default size at the first free
\* position of the stored list, in-bounds and clear of every stored widget,
\* and keeps the stored widgets as they are; without a free position it
\* stores the list unchanged and calls neither onWidgetAdd nor
\* onWidgetsChange.
C22_AddAtFirstFit ==
  pc = "added" =>
    IF FreeForDefault = {}
    THEN /\ result.widgets = widgets
         /\ CallbacksOf(result.fired) \cap {"onWidgetAdd", "onWidgetsChange"} = {}
    ELSE LET new == result.widgets[Len(result.widgets)]
         IN  /\ Len(result.widgets) = Len(widgets) + 1
             /\ SubSeq(result.widgets, 1, Len(widgets)) = widgets
             /\ new.width = defaultWidgetSize.w
             /\ new.height = defaultWidgetSize.h
             /\ [x |-> new.x, y |-> new.y] = FirstFree(FreeForDefault)
             /\ InBounds(new, gridCols, gridRows)
             /\ \A i \in 1..Len(widgets) : ~ShareCell(new, widgets[i])

\* the grid holds widgets and has no room for one more
C22_Witness ==
  /\ pc = "added"
  /\ FreeForDefault = {}
  /\ Len(widgets) = MaxWidgets
  /\ \A i \in 1..Len(widgets) : InBounds(widgets[i], gridCols, gridRows)
  /\ result.widgets = widgets
  /\ CallbacksOf(result.fired) = {"alert"}

ConsistentInput ==
  /\ \A i \in 1..Len(widgets) : InBounds(widgets[i], gridCols, gridRows)
  /\ PairwiseDisjoint(widgets)

\* C28: when every input rectangle is in-bounds and no two share a cell,
\* reflowWidgets with preventOverlap = true and any activeWidgetId, or none,
\* returns every widget at its input position.
C28_ConsistentIsFixedPoint ==
  (Reflowed /\ preventOverlap /\ ConsistentInput) =>
    /\ IdsOf(result) = IdsOf(widgets)
    /\ \A i \in 1..Len(widgets) : ById(result, widgets[i].id) = widgets[i]

\* two widgets, none at the origin, the later one in reading order active
C28_Witness ==
  /\ Reflowed /\ preventOverlap /\ ConsistentInput
  /\ Len(widgets) = 2
  /\ activeWidgetId = widgets[1].id
  /\ ~ReadsBefore(widgets[1], widgets[2])
  /\ \A i \in 1..2 : widgets[i].x + widgets[i].y > 0
  /\ \A i \in 1..2 : ById(result, widgets[i].id) = widgets[i]

(***************************************************************************)
(* WidgetGrid.tsx: group visibility (hiddenGroups, the groupFilters prop,  *)
(* filteredWidgets, setGroupVisible, getVisibleGroups)                     *)
(***************************************************************************)
\* the most entries the groupFilters prop starts with
MaxFilters == 2

\* the group tags of the model
GroupIds == {"red", "blue"}

\* if (widget.groupId): undefined and the empty string are falsy
Truthy(groupId) == groupId \notin {Undefined, ""}

\* groupFilters.find(f => f.groupId === groupId): the first entry, or Null
FindFilter(filters, groupId) ==
  IF \E k \in 1..Len(filters) : filters[k].groupId = groupId
  THEN filters[CHOOSE k \in 1..Len(filters) :
                 /\ filters[k].groupId = groupId
                 /\ \A j \in 1..(k - 1) : filters[j].groupId # groupId]
  ELSE Null

\* the predicate of displayWidgets.filter in filteredWidgets
IsShown(widget, filters, hidden) ==
  IF Truthy(widget.groupId)
  THEN LET groupFilter == FindFilter(filters, widget.groupId)
       IN  IF ~IsNull(groupFilter) THEN groupFilter.visible
           ELSE widget.groupId \notin hidden
  ELSE TRUE

filteredWidgets(ws, filters, hidden) ==
  SelectSeq(ws, LAMBDA w : IsShown(w, filters, hidden))

\* new Set(displayWidgets.map(w => w.groupId).filter(Boolean)) in insertion
\* order
RECURSIVE AllGroupIds(_)
AllGroupIds(ws) ==
  IF ws = <<>> THEN <<>>
  ELSE LET before == AllGroupIds(SubSeq(ws, 1, Len(ws) - 1))
           g == ws[Len(ws)].groupId
       IN  IF Truthy(g) /\ \A k \in 1..Len(before) : before[k] # g
           THEN Append(before, g)
           ELSE before

getVisibleGroups(ws, filters, hidden) ==
  SelectSeq(AllGroupIds(ws), LAMBDA groupId :
    LET groupFilter == FindFilter(filters, groupId)
    IN  IF ~IsNull(groupFilter) THEN groupFilter.visible
        ELSE groupId \notin hidden)

\* displayWidgets: up to MaxWidgets widgets side by side, each with a group
\* tag, the empty tag or none
GroupedLists ==
  UNION {{[i \in 1..n |->
             [groupId |-> gs[i]] @@
             AsWidget(WidgetId(i), [x |-> i - 1, y |-> 0, width |-> 1, height |-> 1])] :
            gs \in [1..n -> GroupIds \cup {Undefined, ""}]} : n \in 0..MaxWidgets}

FilterLists ==
  UNION {[1..n -> [groupId : GroupIds, visible : BOOLEAN]] : n \in 0..MaxFilters}

\* onGroupFiltersChange is absent, or a callback of a parent that stores the
\* filters it is given in the groupFilters prop, or one that does not
InitGroups ==
  /\ pc = "idle"
  /\ widgets \in GroupedLists
  /\ groupFilters \in FilterLists
  /\ onGroupFiltersChange \in {Undefined, "setGroupFilters", "log"}
  /\ hiddenGroups = {}
  /\ fired = <<>>
  /\ probe = Unused
  /\ gridCols = Unused /\ gridRows = Unused /\ preventOverlap = Unused
  /\ activeWidgetId = Unused /\ result = Unused
  /\ result2 = Unused /\ result3 = Unused
  /\ draggedId = Unused /\ preview = Unused /\ hasMoved = Unused
  /\ defaultWidgetSize = Unused

\* setGroupVisible(groupId, visible); probe keeps the arguments of the call
SetGroupVisible ==
  /\ \E groupId \in GroupIds, visible \in BOOLEAN :
       /\ probe' = [groupId |-> groupId, visible |-> visible]
       /\ hiddenGroups' = IF visible THEN hiddenGroups \ {groupId}
                          ELSE hiddenGroups \cup {groupId}
       /\ IF onGroupFiltersChange # Undefined
          THEN LET mapped == [k \in 1..Len(groupFilters) |->
                                IF groupFilters[k].groupId = groupId
                                THEN [groupFilters[k] EXCEPT !.visible = visible]
                                ELSE groupFilters[k]]
                   updatedFilters ==
                     IF ~\E k \in 1..Len(groupFilters) : groupFilters[k].groupId = groupId
                     THEN Append(mapped, [groupId |-> groupId, visible |-> visible])
                     ELSE mapped
               IN  /\ fired' = <<Call("onGroupFiltersChange", updatedFilters)>>
                   /\ groupFilters' = IF onGroupFiltersChange = "setGroupFilters"
                                      THEN updatedFilters ELSE groupFilters
          ELSE fired' = <<>> /\ groupFilters' = groupFilters
  /\ pc' = "setGroupVisible"
  /\ UNCHANGED <<widgets, gridCols, gridRows, preventOverlap, activeWidgetId, result,
                 result2, draggedId, preview, hasMoved, defaultWidgetSize,
                 result3, onGroupFiltersChange>>

NextGroups == SetGroupVisible

SpecGroups == InitGroups /\ [][NextGroups]_vars

\* what the grid shows and what getVisibleGroups() returns in this state
Shown == filteredWidgets(widgets, groupFilters, hiddenGroups)
VisibleGroups ==
  LET visible == getVisibleGroups(widgets, groupFilters, hiddenGroups)
  IN  {visible[k] : k \in 1..Len(visible)}

\* C24: after setGroupVisible(g, false) no widget of group g is shown and
\* getVisibleGroups() does not contain g; after setGroupVisible(g, true) the
\* widgets of g are shown and getVisibleGroups() contains g; a widget
\* without a group tag is shown in every state.
C24_GroupCallsTakeEffect ==
  /\ (pc = "setGroupVisible" /\ ~probe.visible) =>
       /\ \A i \in 1..Len(Shown) : Shown[i].groupId # probe.groupId
       /\ probe.groupId \notin VisibleGroups
  /\ (pc = "setGroupVisible" /\ probe.visible) =>
       /\ \A i \in 1..Len(widgets) :
            widgets[i].groupId = probe.groupId => widgets[i] \in {Shown[k] : k \in 1..Len(Shown)}
       /\ probe.groupId \in VisibleGroups
  /\ \A i \in 1..Len(widgets) :
       ~Truthy(widgets[i].groupId) => widgets[i] \in {Shown[k] : k \in 1..Len(Shown)}

\* the same for a group some widget carries, when the groupFilters prop has
\* no entry for the group or the parent stores the filters it is handed
GroupCallsTakeEffectWhenFiltersFollow ==
  (/\ pc = "setGroupVisible"
   /\ \E i \in 1..Len(widgets) : widgets[i].groupId = probe.groupId
   /\ \/ onGroupFiltersChange = "setGroupFilters"
      \/ IsNull(FindFilter(groupFilters, probe.groupId)))
    => C24_GroupCallsTakeEffect

(***************************************************************************)
(* Claims about the end of a drag gesture                                  *)
(***************************************************************************)
\* a step of handleDragEnd that calls onWidgetMove
DragCommits == draggedId # NullId /\ fired' # <<>>

\* the stored widgets after the step are the ones the preview showed
CommittedIsPreview ==
  LET listed == {preview.reflowPreviews[k].id : k \in 1..Len(preview.reflowPreviews)}
  IN  /\ IdsOf(widgets') = IdsOf(widgets)
      /\ ById(widgets', draggedId).x = preview.x
      /\ ById(widgets', draggedId).y = preview.y
      /\ \A k \in 1..Len(preview.reflowPreviews) :
           /\ ById(widgets', preview.reflowPreviews[k].id).x = preview.reflowPreviews[k].x
           /\ ById(widgets', preview.reflowPreviews[k].id).y = preview.reflowPreviews[k].y
      /\ \A i \in 1..Len(widgets) :
           widgets[i].id \notin listed \cup {draggedId}
             => ById(widgets', widgets[i].id) = widgets[i]

\* C25: when a drag ends after a move, under either preventOverlap setting,
\* the dragged widget is stored at the preview position, the widgets of the
\* preview's displaced list at their listed positions, and every other
\* widget as it was.
C25_CommitEqualsPreview ==
  [][DragCommits => CommittedIsPreview]_vars

\* the same with preventOverlap = true and stored widgets that are in-bounds
\* and pairwise non-overlapping
CommitEqualsPreviewWhenConsistent ==
  [][(/\ DragCommits
      /\ preventOverlap
      /\ PairwiseDisjoint(widgets)
      /\ \A i \in 1..Len(widgets) : InBounds(widgets[i], gridCols, gridRows))
        => CommittedIsPreview]_vars

\* ---------------------------------------------------------------------------
\* setInitialWidgets (useWidgetActions.ts)
\* ---------------------------------------------------------------------------

\* initialWidgets.map((widget, index) => ...): the set `seen` is created anew
\* inside the callback, for every element
setInitialWidgets(initialWidgets, timestamp) ==
  [k \in 1..Len(initialWidgets) |->
     LET widget == initialWidgets[k]
         index  == k - 1
         seen   == {}
     IN  IF widget.id \in seen
           THEN [widget EXCEPT !.id = widget.id \o "-" \o ToString(timestamp)
                                         \o "-" \o ToString(index)]
           ELSE widget]

\* lists handed to setInitialWidgets: identifiers may repeat
InitialLists ==
  LET rects == {r \in RectsOn(MaxHookCols, MaxHookRows) :
                  InBounds(r, MaxHookCols, MaxHookRows)}
      given == {[AsWidget(WidgetId(i), r) EXCEPT !.type = t] :
                  i \in 1..MaxWidgets, r \in rects, t \in {"chart", "clock"}}
  IN  UNION {[1..n -> given] : n \in 0..MaxWidgets}

InitInitial ==
  /\ pc = "initial"
  /\ widgets = <<>>
  /\ probe \in [initialWidgets : InitialLists, timestamp : 0..MaxClock]
  /\ gridCols = Unused /\ gridRows = Unused /\ preventOverlap = Unused
  /\ activeWidgetId = Unused
  /\ result = Unused
  /\ result2 = Unused /\ result3 = Unused
  /\ draggedId = Unused /\ preview = Unused /\ hasMoved = Unused
  /\ fired = Unused /\ defaultWidgetSize = Unused
  /\ hiddenGroups = Unused /\ groupFilters = Unused /\ onGroupFiltersChange = Unused

\* setInitialWidgets(initialWidgets): setWidgets(cleanWidgets), no callback
SetInitialWidgets ==
  /\ pc = "initial"
  /\ pc' = "initialised"
  /\ widgets' = setInitialWidgets(probe.initialWidgets, probe.timestamp)
  /\ UNCHANGED <<gridCols, gridRows, preventOverlap, activeWidgetId, probe, result,
                 result2, draggedId, preview, hasMoved, fired, defaultWidgetSize,
                 result3, hiddenGroups, groupFilters, onGroupFiltersChange>>

NextInitial == SetInitialWidgets

SpecInitial == InitInitial /\ [][NextInitial]_vars

\* the identifier of the element at k repeats the one of an earlier element
RepeatsEarlier(ws, k) == \E j \in 1..(k - 1) : ws[j].id = ws[k].id

DistinctIds(ws) == \A i, j \in 1..Len(ws) : i # j => ws[i].id # ws[j].id

\* C26: after setInitialWidgets(L) the stored identifiers are pairwise
\* distinct: a widget whose id repeats an earlier one of L is stored under an
\* id that no widget of L carries, every other widget is stored unchanged
C26_InitialIdsMadeDistinct ==
  pc = "initialised" =>
    LET L == probe.initialWidgets
    IN  /\ Len(widgets) = Len(L)
        /\ DistinctIds(widgets)
        /\ \A k \in 1..Len(L) :
             IF RepeatsEarlier(L, k)
               THEN widgets[k].id \notin IdsOf(L)
               ELSE widgets[k] = L[k]

\* what the code does instead: the list is stored as it was given
InitialWidgetsStoredAsGiven ==
  pc = "initialised" => widgets = probe.initialWidgets

\* the calls of the drag hook's onWidgetMove among the callbacks of a step
DragMoveCalls(calls) ==
  {k \in 1..Len(calls) : calls[k].cb = "useDragHandling.onWidgetMove"}

GestureEnds == draggedId # NullId /\ draggedId' = NullId

\* a step calls onWidgetMove at most once, and only with a preview that a
\* drag-move produced, passing the dragged id and the preview's position
CommitsLastPreview ==
  /\ Cardinality(DragMoveCalls(fired')) <= 1
  /\ DragMoveCalls(fired') # {} =>
       /\ draggedId # NullId /\ hasMoved /\ ~IsNull(preview)
       /\ fired'[1].cb = "useDragHandling.onWidgetMove"
       /\ fired'[1].arg = <<draggedId, preview.x, preview.y>>

\* the position handed to onWidgetMove is in-bounds for the dragged widget
CommitsInBounds ==
  DragMoveCalls(fired') # {} =>
    InBounds([ById(widgets, draggedId) EXCEPT !.x = fired'[1].arg[2],
                                               !.y = fired'[1].arg[3]],
             gridCols, gridRows)

\* the end of a gesture resets the drag state, and commits nothing when no
\* drag-move produced a preview
EndResets ==
  GestureEnds =>
    /\ IsNull(preview') /\ hasMoved' = FALSE
    /\ (IsNull(preview) \/ ~hasMoved) => (widgets' = widgets /\ fired' = <<>>)

\* outside a gesture there is no preview: a preview at the end of a gesture
\* was produced by a drag-move of that gesture
NoPreviewOutsideGesture ==
  draggedId = NullId => (IsNull(preview) /\ hasMoved = FALSE)

DraggedFitsGrid ==
  draggedId \in IdsOf(widgets) =>
    /\ ById(widgets, draggedId).width <= gridCols
    /\ ById(widgets, draggedId).height <= gridRows

\* C27 as stated: handleDragEnd calls onWidgetMove at most once per gesture,
\* only after a drag-move produced a preview, with the dragged id and the
\* preview's (x,y), which is in-bounds for the dragged widget whatever its
\* size; a gesture without a move commits nothing; the end resets the state
C27_EndCommitsInBoundsPreview ==
  /\ []NoPreviewOutsideGesture
  /\ [][CommitsLastPreview /\ CommitsInBounds /\ EndResets]_vars

\* C27, amended: the same, the committed position being in-bounds when the
\* dragged widget is no larger than the grid
C27_EndCommitsPreview ==
  /\ []NoPreviewOutsideGesture
  /\ [][/\ CommitsLastPreview
        /\ DraggedFitsGrid => CommitsInBounds
        /\ EndResets]_vars

\* a gesture has ended with a commit: onWidgetMove was called, the drag state
\* is reset
C27_Witness ==
  /\ DragMoveCalls(fired) # {}
  /\ draggedId = NullId /\ IsNull(preview) /\ hasMoved = FALSE
  /\ \E i \in 1..Len(widgets) :
       /\ widgets[i].id = fired[1].arg[1]
       /\ InBounds(widgets[i], gridCols, gridRows)

\* ---------------------------------------------------------------------------
\* resizeWidget as a function of the stored set and its arguments
\* ---------------------------------------------------------------------------

InitResize ==
  /\ pc = "resize"
  /\ gridCols \in 1..MaxDragCols
  /\ gridRows \in 1..MaxDragRows
  /\ preventOverlap \in BOOLEAN
  /\ widgets \in WidgetLists(gridCols, gridRows)
  /\ probe \in [id : IdsOf(widgets) \cup {MissingId},
                width : 0..(gridCols + 1), height : 0..(gridRows + 1)]
  /\ activeWidgetId = Unused
  /\ result = Unused
  /\ result2 = Unused /\ result3 = Unused
  /\ draggedId = Unused /\ preview = Unused /\ hasMoved = Unused
  /\ fired = Unused /\ defaultWidgetSize = Unused
  /\ hiddenGroups = Unused /\ groupFilters = Unused /\ onGroupFiltersChange = Unused

\* resizeWidget(): result holds the list it stores and the callbacks it calls
Resize ==
  /\ pc = "resize"
  /\ pc' = "resized"
  /\ result' = resizeWidget(widgets, probe.id, probe.width, probe.height,
                            gridCols, gridRows, preventOverlap)
  /\ UNCHANGED <<widgets, gridCols, gridRows, preventOverlap, activeWidgetId, probe,
                 result2, draggedId, preview, hasMoved, fired, defaultWidgetSize,
                 result3, hiddenGroups, groupFilters, onGroupFiltersChange>>

NextResize == Resize

SpecResize == InitResize /\ [][NextResize]_vars

\* the widget to resize is stored and in-bounds
ResizedInBounds ==
  /\ pc = "resized"
  /\ probe.id \in IdsOf(widgets)
  /\ InBounds(ById(widgets, probe.id), gridCols, gridRows)

\* C29: resizeWidget(id,w,h) on an in-bounds widget stores
\* width = max(1, min(w, cols - x)) and height = max(1, min(h, rows - y)),
\* leaves x and y as they were and the widget in-bounds, under both
\* preventOverlap settings, with or without a collision and reflow
C29_ResizeClampsAndStays ==
  ResizedInBounds =>
    LET before == ById(widgets, probe.id)
    IN  /\ probe.id \in IdsOf(result.widgets)
        /\ LET after == ById(result.widgets, probe.id)
           IN  /\ after.width = Max(1, Min(probe.width, gridCols - before.x))
               /\ after.height = Max(1, Min(probe.height, gridRows - before.y))
               /\ after.x = before.x
               /\ after.y = before.y
               /\ InBounds(after, gridCols, gridRows)

\* a resize beyond the right edge was clamped, collided with another widget
\* and the reflow moved that widget
C29_Witness ==
  /\ ResizedInBounds
  /\ preventOverlap
  /\ probe.width > gridCols - ById(widgets, probe.id).x
  /\ \E i \in 1..Len(widgets) :
       /\ widgets[i].id # probe.id
       /\ checkCollision(ById(result.widgets, probe.id), widgets[i])
       /\ ById(result.widgets, widgets[i].id) # widgets[i]

\* ---------------------------------------------------------------------------
\* addWidget over sets with any identifiers
\* ---------------------------------------------------------------------------

\* identifiers a stored set may carry: given by the caller (widget-n, or
\* without a number), or generated earlier (widget-n-timestamp)
ExistingIds ==
  {WidgetId(n) : n \in 1..(MaxIdNumber + 1)}
    \cup {MakeId(n, t) : n \in 1..(MaxIdNumber + 1), t \in 0..MaxClock}
    \cup {"sidebar"}

IdentifiedLists(cols, rows) ==
  LET given == {AsWidget(id, r) : id \in ExistingIds,
                  r \in {q \in RectsOn(cols, rows) : InBounds(q, cols, rows)}}
  IN  UNION {[1..n -> given] : n \in 0..MaxWidgets}

InitIds ==
  /\ pc = "add"
  /\ gridCols \in 1..MaxHookCols
  /\ gridRows \in 1..MaxHookRows
  /\ preventOverlap \in BOOLEAN
  /\ defaultWidgetSize \in [w : 1..gridCols, h : 1..gridRows]
  /\ widgets \in IdentifiedLists(gridCols, gridRows)
  /\ probe \in [timestamp : 0..MaxClock]
  /\ activeWidgetId = Unused
  /\ result = Unused
  /\ result2 = Unused /\ result3 = Unused
  /\ draggedId = Unused /\ preview = Unused /\ hasMoved = Unused
  /\ fired = Unused
  /\ hiddenGroups = Unused /\ groupFilters = Unused /\ onGroupFiltersChange = Unused

SpecIds == InitIds /\ [][NextAdd]_vars

\* addWidget has stored a new widget
AddedOne == pc = "added" /\ result.fired[1].cb = "onWidgetAdd"

IdsStayDistinct == DistinctIds(widgets)

====
